---- MODULE Spec2Model ----
(***************************************************************************)
(* A model of theseus: Python bindings (pyo3) around the ariadne           *)
(* diagnostic library.  Modelled: Label (label.rs), Report, ReportKind and *)
(* Source (report.rs), ColorGenerator (color_generator.rs) and Color       *)
(* (color.rs).  The hue algorithm of the wrapped generator lives in the    *)
(* ariadne crate; it is modelled from the design document (section 4.1).   *)
(***************************************************************************)
EXTENDS Integers, Sequences, FiniteSets

\* ------------------------------------------------------------------ bounds
\* Offsets range over 0..MaxPos.
MaxPos == 2
\* At most MaxLabels labels are attached to one report.
MaxLabels == 2
\* At most MaxTexts notes and MaxTexts helps are attached to one report.
MaxTexts == 2
\* At most MaxDraws values are drawn from one generator.
MaxDraws == 3
\* At most MaxFiles auxiliary sources are given to a report's constructor.
MaxFiles == 2
\* Where every pair of offsets is tried, a report gets at most MaxSpanLabels
\* labels.
MaxSpanLabels == 1
\* Consecutive colours are compared from the cursor after each of the first
\* SampleDraws calls.
SampleDraws == 360

\* ------------------------------------------------------- Option and PyResult
\* Rust's Option<T>: None is the empty sequence, Some(x) the sequence <<x>>.
None == <<>>
Some(x) == <<x>>
IsSome(o) == o # <<>>
Unwrap(o) == o[1]

\* PyResult<T>: Ok(v) or Err(message of the Python exception).
Ok(v) == [ok |-> TRUE, val |-> <<v>>, err |-> ""]
Err(msg) == [ok |-> FALSE, val |-> <<>>, err |-> msg]

\* ------------------------------------------------------------------- Color
\* color.rs: Color wraps an ariadne::Color.
Color_new(inner) == [inner |-> inner]
Color_rgb(r, g, b) == Color_new([tag |-> "Rgb", r |-> r, g |-> g, b |-> b])
Named(name) == Color_new([tag |-> name])

\* ------------------------------------------------- the wrapped generator
\* Design section 4.1: a hue in [0, 360) degrees, here in thousandths of a
\* degree, advanced by the golden angle on every call and converted with a
\* fixed saturation and brightness to an RGB triple.
HueModulus == 360000
HueSeed == 0
HueStep == 137508
Saturation == 70
Brightness == 90

HsvToRgb(h) ==
    LET sector == h \div 60000
        f == h % 60000
        full == 100 * 60000
        v == (255 * Brightness) \div 100
        p == (v * (100 - Saturation)) \div 100
        q == (v * (full - Saturation * f)) \div full
        t == (v * (full - Saturation * (60000 - f))) \div full
    IN  CASE sector = 0 -> <<v, t, p>>
          [] sector = 1 -> <<q, v, p>>
          [] sector = 2 -> <<p, v, t>>
          [] sector = 3 -> <<p, q, v>>
          [] sector = 4 -> <<t, p, v>>
          [] OTHER      -> <<v, p, q>>

\* ariadne::ColorGenerator::new(): the fixed seed.
Inner_new == [hue |-> HueSeed]

\* ariadne::ColorGenerator::next(): advance the cursor, then convert.
\* Returns the advanced generator and the colour.
Inner_next(inner) ==
    LET hue == (inner.hue + HueStep) % HueModulus
        rgb == HsvToRgb(hue)
    IN  [gen |-> [hue |-> hue],
         color |-> [tag |-> "Rgb", r |-> rgb[1], g |-> rgb[2], b |-> rgb[3]]]

\* ---------------------------------------------------------- ColorGenerator
\* color_generator.rs: ColorGenerator::new.
ColorGenerator_new == [inner |-> Inner_new]

\* ColorGenerator::__next__ advancing a copy of the wrapped generator.
ColorGenerator___next___on_copy(self) ==
    LET n == Inner_next(self.inner)
    IN  [self |-> self, ret |-> Color_new(n.color)]

\* color_generator.rs: ColorGenerator::__next__ -- never fails, never ends.
ColorGenerator___next__(self) ==
    LET n == Inner_next(self.inner)
    IN  [self |-> [inner |-> n.gen], ret |-> Color_new(n.color)]

\* color_generator.rs: ColorGenerator::next.
ColorGenerator_next(self) == ColorGenerator___next__(self)

\* ------------------------------------------------------------------- Label
InvalidSpan == "Start index must be less than or equal to end index"

\* label.rs: Label::new.
Label_new(span) ==
    [span |-> span, target |-> None, message |-> None, color |-> None,
     order |-> None, priority |-> None]

\* label.rs: Label::set_params -- only the supplied fields are replaced.
Label_set_params(self, target, message, color, order, priority) ==
    [span |-> self.span,
     target |-> IF IsSome(target) THEN Some(Unwrap(target)) ELSE self.target,
     message |-> IF IsSome(message) THEN Some(Unwrap(message)) ELSE self.message,
     color |-> IF IsSome(color) THEN Some(Unwrap(color)) ELSE self.color,
     order |-> IF IsSome(order) THEN Some(Unwrap(order)) ELSE self.order,
     priority |-> IF IsSome(priority) THEN Some(Unwrap(priority)) ELSE self.priority]

\* Label::py_new rejecting start >= end.
Label_py_new_strict(start, end, path, message, color, order, priority) ==
    IF start >= end
    THEN Err(InvalidSpan)
    ELSE Ok(Label_set_params(Label_new(<<start, end>>),
                             path, message, color, order, priority))

\* label.rs: Label::py_new.
Label_py_new(start, end, path, message, color, order, priority) ==
    IF start > end
    THEN Err(InvalidSpan)
    ELSE Ok(Label_set_params(Label_new(<<start, end>>),
                             path, message, color, order, priority))

\* Label::copy starting from Label::new(span) instead of a clone of self.
Label_copy_fresh(self, message, color, order, priority) ==
    Label_set_params(Label_new(self.span), None, message, color, order, priority)

\* label.rs: Label::copy.
Label_copy(self, message, color, order, priority) ==
    Label_set_params(self, None, message, color, order, priority)

\* label.rs: Label::replace_target.
Label_replace_target(self, target) == [self EXCEPT !.target = Some(target)]

\* label.rs: Label::to_ariadne -- the ariadne label: the (target, span)
\* pair and the builder calls made on it.
Label_to_ariadne(self) ==
    [target |-> IF IsSome(self.target) THEN Unwrap(self.target) ELSE "<string>",
     span |-> self.span,
     message |-> self.message,
     color |-> IF IsSome(self.color) THEN Some(Unwrap(self.color).inner) ELSE None,
     order |-> self.order,
     priority |-> self.priority]

\* Label::to_ariadne_with_default ignoring the path it is given.
Label_to_ariadne_without_default(self, path) == Label_to_ariadne(self)

\* label.rs: Label::to_ariadne_with_default.
Label_to_ariadne_with_default(self, path) ==
    IF self.target = None
    THEN Label_to_ariadne(Label_replace_target(self, path))
    ELSE Label_to_ariadne(self)

\* -------------------------------------------------------------- ReportKind
KindError == [tag |-> "Error"]
KindWarning == [tag |-> "Warning"]
KindAdvice == [tag |-> "Advice"]
KindCustom(name, color) == [tag |-> "Custom", name |-> name, color |-> color]

\* ReportKind::from_params without the "warn" alias.
ReportKind_from_params_no_alias(name, color) ==
    CASE (name = None /\ color = None) \/ (name = Some("error") /\ color = None)
            -> Ok(KindError)
      [] name = Some("warning") /\ color = None
            -> Ok(KindWarning)
      [] name = Some("advice") /\ color = None
            -> Ok(KindAdvice)
      [] name = None /\ IsSome(color)
            -> Err("Color specified without a name for custom report kind")
      [] IsSome(name) /\ IsSome(color)
            -> IF Unwrap(name) = ""
               THEN Err("Custom report kind name cannot be empty")
               ELSE IF Unwrap(name) \in {"error", "warning", "advice", "warn"}
               THEN Err("Cannot set custom color for " \o Unwrap(name))
               ELSE Ok(KindCustom(Unwrap(name), Unwrap(color)))
      [] OTHER
            -> Err("Must specify a color for custom report kind")

\* report.rs: ReportKind::from_params, arm by arm in the order of the match.
ReportKind_from_params(name, color) ==
    CASE (name = None /\ color = None) \/ (name = Some("error") /\ color = None)
            -> Ok(KindError)
      [] (name = Some("warning") /\ color = None) \/ (name = Some("warn") /\ color = None)
            -> Ok(KindWarning)
      [] name = Some("advice") /\ color = None
            -> Ok(KindAdvice)
      [] name = None /\ IsSome(color)
            -> Err("Color specified without a name for custom report kind")
      [] IsSome(name) /\ IsSome(color)
            -> IF Unwrap(name) = ""
               THEN Err("Custom report kind name cannot be empty")
               ELSE IF Unwrap(name) \in {"error", "warning", "advice", "warn"}
               THEN Err("Cannot set custom color for " \o Unwrap(name))
               ELSE Ok(KindCustom(Unwrap(name), Unwrap(color)))
      [] OTHER
            -> Err("Must specify a color for custom report kind")

\* report.rs: ReportKind::to_ariadne.
ReportKind_to_ariadne(self) ==
    IF self.tag = "Custom"
    THEN [tag |-> "Custom", name |-> self.name, color |-> self.color.inner]
    ELSE self

\* ------------------------------------------------------------------ Config
\* config.rs: parse_label_attach.
parse_label_attach(label_attach) ==
    CASE label_attach = "start"  -> Ok("Start")
      [] label_attach = "middle" -> Ok("End")
      [] label_attach = "right"  -> Ok("Middle")
      [] OTHER -> Err("label_attach must be one of 'start', 'middle', 'end' or None")

\* config.rs: Config::new.
Config_new(inner) == [inner |-> inner]

\* config.rs: Config::py_new, every parameter given.
Config_py_new(cross_gap, compact, underlines, multiline_arrows, color, tab_width, ascii, byte_indexed, label_attach) ==
    LET attach == parse_label_attach(label_attach)
    IN  IF ~attach.ok THEN Err(attach.err)
        ELSE Ok(Config_new([cross_gap |-> cross_gap, compact |-> compact,
                            underlines |-> underlines,
                            multiline_arrows |-> multiline_arrows,
                            color |-> color, tab_width |-> tab_width,
                            char_set |-> IF ascii THEN "Ascii" ELSE "Unicode",
                            index_type |-> IF byte_indexed THEN "Byte" ELSE "Char",
                            label_attach |-> Unwrap(attach.val)]))

\* config.rs: the default of py_new's label_attach parameter.
DefaultLabelAttach == "middle"

\* report.rs: the default of py_new's config parameter,
\* Config::new(ariadne::Config::default()).
Config_default ==
    Config_new([cross_gap |-> TRUE, compact |-> FALSE, underlines |-> TRUE,
                multiline_arrows |-> TRUE, color |-> TRUE, tab_width |-> 4,
                char_set |-> "Unicode", index_type |-> "Char",
                label_attach |-> "Middle"])

\* ------------------------------------------------------------------ Source
\* Python values handed to the constructors:
\*   [type |-> "str", text |-> t]                a string
\*   [type |-> "Path", path |-> p]               a pathlib.Path
\*   [type |-> "file", text |-> t, name |-> o]   a file-like object, o an Option
\*   [type |-> "int"]                            anything else
PyStr(t) == [type |-> "str", text |-> t]
PyPath(p) == [type |-> "Path", path |-> p]
PyFile(t, name) == [type |-> "file", text |-> t, name |-> name]
PyInt == [type |-> "int"]
PyNone == [type |-> "None"]
PyList(items) == [type |-> "list", items |-> items]
PyDict(items) == [type |-> "dict", items |-> items]

\* The files std::fs::read_to_string can read.
FileSystem == [p \in {"a.txt", "b.txt"} |-> IF p = "a.txt" THEN "alpha" ELSE "be"]

\* report.rs: Source::new.
Source_new(path, source) == [path |-> path, source |-> source]

\* report.rs: from_path.
from_path(obj) ==
    IF obj.type = "Path" THEN Ok(obj.path)
    ELSE Err("Expected a Path object or a string")

\* report.rs: from_file_like.
from_file_like(obj) ==
    IF obj.type # "file" THEN Err("no read method")
    ELSE Ok(Source_new(IF IsSome(obj.name) THEN Unwrap(obj.name) ELSE "<string>",
                       obj.text))

\* report.rs: Source::from_python.
Source_from_python(obj) ==
    IF obj.type = "str"
    THEN Ok(Source_new("<string>", obj.text))
    ELSE IF from_path(obj).ok
    THEN LET path == Unwrap(from_path(obj).val)
         IN  IF path \in DOMAIN FileSystem
             THEN Ok(Source_new(path, FileSystem[path]))
             ELSE Err("Failed to read file '" \o path \o "'")
    ELSE IF from_file_like(obj).ok
    THEN from_file_like(obj)
    ELSE Err("Expected a string, path or file-like object")

\* report.rs: Source::pair.
Source_pair(self) == <<self.path, self.source>>

\* report.rs: from_path_or_str.
from_path_or_str(obj) ==
    IF obj.type = "str" THEN Ok(obj.text)
    ELSE IF from_path(obj).ok THEN from_path(obj)
    ELSE Err("Expected a string or Path object")

\* The loops of parse_files_bounded: every item converted in order, the first
\* failure returned.
RECURSIVE SourcesOfList(_)
SourcesOfList(items) ==
    IF items = <<>> THEN Ok(<<>>)
    ELSE LET head == Source_from_python(Head(items))
             tail == SourcesOfList(Tail(items))
         IN  IF ~head.ok THEN Err(head.err)
             ELSE IF ~tail.ok THEN tail
             ELSE Ok(<<Unwrap(head.val)>> \o Unwrap(tail.val))

RECURSIVE SourcesOfDict(_)
SourcesOfDict(items) ==
    IF items = <<>> THEN Ok(<<>>)
    ELSE LET path == from_path_or_str(Head(items)[1])
             value == Head(items)[2]
             tail == SourcesOfDict(Tail(items))
         IN  IF ~path.ok THEN Err(path.err)
             ELSE IF value.type # "str" THEN Err("value is not a str")
             ELSE IF ~tail.ok THEN tail
             ELSE Ok(<<Source_new(Unwrap(path.val), value.text)>> \o Unwrap(tail.val))

\* report.rs: parse_files / parse_files_bounded.
parse_files(files) ==
    CASE files.type = "None" -> Ok(<<>>)
      [] files.type = "list" -> SourcesOfList(files.items)
      [] files.type = "dict" -> SourcesOfDict(files.items)
      [] OTHER -> Err("Expected a list of files or dictionary mapping paths to sources")

\* ------------------------------------------------------------------ Report
\* report.rs: Report::new.
Report_new(source, span, config) ==
    [source |-> source, span |-> span, config |-> config, code |-> None,
     message |-> None, kind |-> KindError, labels |-> <<>>, notes |-> <<>>,
     helps |-> <<>>, files |-> <<>>, colors |-> Inner_new]

\* report.rs: Report::set_params.
Report_set_params(self, code, message, kind, labels, notes, helps, files) ==
    [self EXCEPT !.code = code, !.message = message, !.kind = kind,
                 !.labels = labels, !.notes = notes, !.helps = helps,
                 !.files = files]

\* report.rs: Report::py_new -- the span is start..end as given.
Report_py_new(source, start, end, code, message, kind, color, labels, notes, helps, config, files) ==
    LET span == <<start, end>>
        src == Source_from_python(source)
        knd == ReportKind_from_params(kind, color)
        fls == parse_files(files)
    IN  IF ~src.ok THEN Err(src.err)
        ELSE IF ~knd.ok THEN Err(knd.err)
        ELSE IF ~fls.ok THEN Err(fls.err)
        ELSE Ok(Report_set_params(Report_new(Unwrap(src.val), span, config),
                                  code, message, Unwrap(knd.val), labels, notes,
                                  helps, Unwrap(fls.val)))

\* report.rs: Report::color.
Report_color(self) ==
    LET n == Inner_next(self.colors)
    IN  [self |-> [self EXCEPT !.colors = n.gen], ret |-> Color_new(n.color)]

\* Report::add_label giving an uncoloured label the report's next colour, as
\* Report::label does.
Report_add_label_coloured(self, label) ==
    LET n == Inner_next(self.colors)
    IN  IF IsSome(label.color)
        THEN [self EXCEPT !.labels = Append(self.labels, label)]
        ELSE [self EXCEPT !.labels = Append(self.labels,
                                            [label EXCEPT !.color = Some(Color_new(n.color))]),
                          !.colors = n.gen]

\* report.rs: Report::add_label.
Report_add_label(self, label) ==
    [self EXCEPT !.labels = Append(self.labels, label)]

\* report.rs: Report::label -- the colour is drawn (when none is given)
\* before Label::py_new checks the bounds.
Report_label(self, start, end, path, message, color, order, priority) ==
    LET n == Inner_next(self.colors)
        drew == [self EXCEPT !.colors = IF IsSome(color) THEN self.colors ELSE n.gen]
        col == IF IsSome(color) THEN color ELSE Some(Color_new(n.color))
        label == Label_py_new(start, end, path, message, col, order, priority)
    IN  IF ~label.ok
        THEN [self |-> drew, ret |-> Err(label.err)]
        ELSE [self |-> [drew EXCEPT !.labels = Append(drew.labels, Unwrap(label.val))],
              ret |-> Ok(Unwrap(label.val))]

\* report.rs: Report::add_note.
Report_add_note(self, note) == [self EXCEPT !.notes = Append(self.notes, note)]

\* report.rs: Report::add_help.
Report_add_help(self, help) == [self EXCEPT !.helps = Append(self.helps, help)]

\* Report::build_ariadne_report with the notes and helps left out of the
\* builder.
Report_build_ariadne_report_without_texts(self) ==
    LET path == self.source.path
    IN  [kind |-> ReportKind_to_ariadne(self.kind),
         span |-> <<path, self.span>>,
         config |-> self.config.inner,
         code |-> self.code,
         message |-> self.message,
         notes |-> <<>>,
         helps |-> <<>>,
         labels |-> [i \in 1..Len(self.labels) |->
                        Label_to_ariadne_with_default(self.labels[i], path)]]

\* report.rs: Report::build_ariadne_report.  The builder is moved through
\* with_config, with_code, with_message and with_label and rebound each
\* time; with_notes and with_helps are called as statements on the same
\* binding, which is then used again, so they borrow the builder mutably and
\* add the notes and helps to it in place.
Report_build_ariadne_report(self) ==
    LET path == self.source.path
    IN  [kind |-> ReportKind_to_ariadne(self.kind),
         span |-> <<path, self.span>>,
         config |-> self.config.inner,
         code |-> self.code,
         message |-> self.message,
         notes |-> self.notes,
         helps |-> self.helps,
         labels |-> [i \in 1..Len(self.labels) |->
                        Label_to_ariadne_with_default(self.labels[i], path)]]

\* Report::prepare_files keeping only the first source of each path.
RECURSIVE DropSeenPaths(_, _)
DropSeenPaths(pairs, seen) ==
    IF pairs = <<>> THEN <<>>
    ELSE IF Head(pairs)[1] \in seen
    THEN DropSeenPaths(Tail(pairs), seen)
    ELSE <<Head(pairs)>> \o DropSeenPaths(Tail(pairs), seen \cup {Head(pairs)[1]})

Report_prepare_files_merged(self) ==
    DropSeenPaths(<<Source_pair(self.source)>> \o
                      [i \in 1..Len(self.files) |-> Source_pair(self.files[i])],
                  {})

\* report.rs: Report::prepare_files.
Report_prepare_files(self) ==
    <<Source_pair(self.source)>> \o
        [i \in 1..Len(self.files) |-> Source_pair(self.files[i])]

\* report.rs: Report::print -- what is handed to ariadne's write (stderr) or
\* write_for_stdout.
Report_print(self, stderr) ==
    [report |-> Report_build_ariadne_report(self),
     files |-> Report_prepare_files(self),
     sink |-> IF stderr THEN "stderr" ELSE "stdout"]

\* =================================================================== state
\* reports: the Report objects of the caller, by name; None before
\*          construction.
\* gens:    the caller's standalone ColorGenerator objects, by name.
\* held:    the Label object the caller holds (Option).
\* last:    the most recent call: its name, its arguments and what it
\*          returned (for print: what it handed to the renderer).
\* outs:    per generator owner (report or standalone generator), the colours
\*          its calls have returned to the caller, in order.
VARIABLES reports, gens, held, last, outs

vars == <<reports, gens, held, last, outs>>

RIds == {"r1", "r2"}
GIds == {"g1", "g2"}

Offsets == 0..MaxPos
Red == Named("red")
Blue == Named("blue")

NoCall == [op |-> "", args |-> <<>>, ret |-> <<>>]
Call(op, args, ret) == [op |-> op, args |-> args, ret |-> ret]

\* The number of times a generator has advanced since Inner_new, up to
\* MaxDraws (the model stops drawing there).
DrawsOf(inner) ==
    IF \E n \in 0..MaxDraws : (HueSeed + n * HueStep) % HueModulus = inner.hue
    THEN CHOOSE n \in 0..MaxDraws : (HueSeed + n * HueStep) % HueModulus = inner.hue
    ELSE MaxDraws

\* Report(PyStr(text), start, end) with every other parameter at its default.
PlainReport(source, start, end) ==
    Unwrap(Report_py_new(source, start, end, None, None, None, None, <<>>, <<>>,
                         <<>>, Config_default, PyList(<<>>)).val)

\* ================================================================= actions
\* Label(start, end, path=..., message=..., color=..., order=..., priority=...)
\* called by the caller, who keeps the result.
NewLabel(start, end, path, message, color, order, priority) ==
    LET ret == Label_py_new(start, end, path, message, color, order, priority)
    IN  /\ held' = IF ret.ok THEN ret.val ELSE held
        /\ last' = Call("Label", [start |-> start, end |-> end, path |-> path,
                                  message |-> message, color |-> color,
                                  order |-> order, priority |-> priority], ret)
        /\ UNCHANGED <<reports, gens, outs>>

\* held.copy(message=..., color=..., order=..., priority=...)
Copy(message, color, order, priority) ==
    /\ IsSome(held)
    /\ last' = Call("copy", [self |-> Unwrap(held), message |-> message,
                             color |-> color, order |-> order,
                             priority |-> priority],
                    Label_copy(Unwrap(held), message, color, order, priority))
    /\ UNCHANGED <<reports, gens, held, outs>>

\* r.add_label(label)
AddLabel(r, label) ==
    /\ IsSome(reports[r])
    /\ Len(Unwrap(reports[r]).labels) < MaxLabels
    /\ reports' = [reports EXCEPT ![r] = Some(Report_add_label(Unwrap(@), label))]
    /\ last' = Call("add_label", [r |-> r, label |-> label], None)
    /\ UNCHANGED <<gens, held, outs>>

\* r.label(start, end, path=..., message=..., color=..., order=..., priority=...)
ReportLabel(r, start, end, path, message, color, order, priority) ==
    /\ IsSome(reports[r])
    /\ Len(Unwrap(reports[r]).labels) < MaxLabels
    /\ color = None => DrawsOf(Unwrap(reports[r]).colors) < MaxDraws
    /\ LET res == Report_label(Unwrap(reports[r]), start, end, path, message,
                               color, order, priority)
       IN  /\ reports' = [reports EXCEPT ![r] = Some(res.self)]
           /\ last' = Call("label", [r |-> r, start |-> start, end |-> end,
                                     path |-> path, message |-> message,
                                     color |-> color, order |-> order,
                                     priority |-> priority], res.ret)
           /\ outs' = IF res.ret.ok /\ color = None
                      THEN [outs EXCEPT ![r] = Append(@, Unwrap(Unwrap(res.ret.val).color))]
                      ELSE outs
    /\ UNCHANGED <<gens, held>>

\* r.add_note(note)
AddNote(r, note) ==
    /\ IsSome(reports[r])
    /\ Len(Unwrap(reports[r]).notes) < MaxTexts
    /\ reports' = [reports EXCEPT ![r] = Some(Report_add_note(Unwrap(@), note))]
    /\ last' = Call("add_note", [r |-> r, note |-> note], None)
    /\ UNCHANGED <<gens, held, outs>>

\* r.add_help(help)
AddHelp(r, help) ==
    /\ IsSome(reports[r])
    /\ Len(Unwrap(reports[r]).helps) < MaxTexts
    /\ reports' = [reports EXCEPT ![r] = Some(Report_add_help(Unwrap(@), help))]
    /\ last' = Call("add_help", [r |-> r, help |-> help], None)
    /\ UNCHANGED <<gens, held, outs>>

\* r.color()
ReportColor(r) ==
    /\ IsSome(reports[r])
    /\ DrawsOf(Unwrap(reports[r]).colors) < MaxDraws
    /\ LET res == Report_color(Unwrap(reports[r]))
       IN  /\ reports' = [reports EXCEPT ![r] = Some(res.self)]
           /\ last' = Call("color", [r |-> r], res.ret)
           /\ outs' = [outs EXCEPT ![r] = Append(@, res.ret)]
    /\ UNCHANGED <<gens, held>>

\* r.print(stderr=...)
ReportPrint(r, stderr) ==
    /\ IsSome(reports[r])
    /\ last' = Call("print", [r |-> r, stderr |-> stderr],
                    Report_print(Unwrap(reports[r]), stderr))
    /\ UNCHANGED <<reports, gens, held, outs>>

\* Config(cross_gap=..., compact=..., underlines=..., multiline_arrows=...,
\*        color=..., tab_width=..., ascii=..., byte_indexed=...,
\*        label_attach=...); label_attach is an Option, None when the caller
\* leaves it out and the signature's default is taken.
NewConfig(cross_gap, compact, underlines, multiline_arrows, color, tab_width, ascii, byte_indexed, label_attach) ==
    /\ last' = Call("Config",
                    [cross_gap |-> cross_gap, compact |-> compact,
                     underlines |-> underlines,
                     multiline_arrows |-> multiline_arrows, color |-> color,
                     tab_width |-> tab_width, ascii |-> ascii,
                     byte_indexed |-> byte_indexed, label_attach |-> label_attach],
                    Config_py_new(cross_gap, compact, underlines,
                                  multiline_arrows, color, tab_width, ascii,
                                  byte_indexed,
                                  IF IsSome(label_attach) THEN Unwrap(label_attach)
                                  ELSE DefaultLabelAttach))
    /\ UNCHANGED <<reports, gens, held, outs>>

\* r = Report(source, start, end, kind=..., color=..., files=...), every other
\* parameter at its default.
NewReport(r, source, start, end, kind, color, files) ==
    /\ reports[r] = None
    /\ LET ret == Report_py_new(source, start, end, None, None, kind, color,
                                <<>>, <<>>, <<>>, Config_default, files)
       IN  /\ reports' = [reports EXCEPT ![r] = IF ret.ok THEN ret.val ELSE None]
           /\ last' = Call("Report", [r |-> r, source |-> source, start |-> start,
                                      end |-> end, kind |-> kind, color |-> color,
                                      files |-> files], ret)
    /\ UNCHANGED <<gens, held, outs>>

\* g.next() with one generator shared by every ColorGenerator object.
GenNext_shared(g) ==
    /\ DrawsOf(gens[g].inner) < MaxDraws
    /\ LET res == ColorGenerator_next(gens[g])
       IN  /\ gens' = [x \in GIds |-> res.self]
           /\ last' = Call("next", [g |-> g], res.ret)
           /\ outs' = [outs EXCEPT ![g] = Append(@, res.ret)]
    /\ UNCHANGED <<reports, held>>

\* g.next() on a standalone generator
GenNext(g) ==
    /\ DrawsOf(gens[g].inner) < MaxDraws
    /\ LET res == ColorGenerator_next(gens[g])
       IN  /\ gens' = [gens EXCEPT ![g] = res.self]
           /\ last' = Call("next", [g |-> g], res.ret)
           /\ outs' = [outs EXCEPT ![g] = Append(@, res.ret)]
    /\ UNCHANGED <<reports, held>>

\* ============================================ the report under its mutators
\* One report, built from a string, then mutated and printed.
NoOuts == [o \in RIds \cup GIds |-> <<>>]

Init ==
    /\ \E text \in {"", "ab"} :
          reports = [r \in RIds |-> IF r = "r1"
                                    THEN Some(PlainReport(PyStr(text), 0, 1))
                                    ELSE None]
    /\ gens = [g \in GIds |-> ColorGenerator_new]
    /\ held = None
    /\ last = NoCall
    /\ outs = NoOuts

\* The labels the caller attaches with add_label.
GivenLabels ==
    {Label_new(<<0, 1>>),
     Label_set_params(Label_new(<<1, 2>>), Some("b.txt"), Some("m"), Some(Red),
                      Some(1), Some(2))}

\* The bounds given to label: one proper span and one with start > end.
GivenSpans == {<<0, 1>>, <<1, 0>>}

Next ==
    \/ \E l \in GivenLabels : AddLabel("r1", l)
    \/ \E sp \in GivenSpans, c \in {None, Some(Red)} :
          ReportLabel("r1", sp[1], sp[2], None, None, c, None, None)
    \/ AddNote("r1", "n")
    \/ AddHelp("r1", "h")
    \/ ReportColor("r1")
    \/ \E b \in BOOLEAN : ReportPrint("r1", b)

Spec == Init /\ [][Next]_vars

\* ----------------------------------------------------------------- helpers
\* A fresh standalone generator after n calls of next(), and the n-th colour
\* it returns.
RECURSIVE FreshAfter(_)
FreshAfter(n) ==
    IF n = 0 THEN ColorGenerator_new
    ELSE ColorGenerator_next(FreshAfter(n - 1)).self

FreshColor(n) == ColorGenerator_next(FreshAfter(n - 1)).ret

\* The report r as it is now and as it is after the step.
Now(r) == Unwrap(reports[r])
After(r) == Unwrap(reports'[r])

\* Every report but r is the same after the step.
OthersKept(r) == \A o \in RIds \ {r} : reports'[o] = reports[o]

\* ------------------------------------------------------------------ C7
\* What a successful label call does to the report, and what it returns.
C7_LabelStep ==
    (last'.op = "label" /\ last'.ret.ok) =>
        LET r == last'.args.r
            lbl == Unwrap(last'.ret.val)
        IN  /\ After(r).labels = Append(Now(r).labels, lbl)
            /\ IsSome(last'.args.color) =>
                  /\ lbl.color = last'.args.color
                  /\ After(r).colors = Now(r).colors
            /\ last'.args.color = None =>
                  lbl.color = Some(Report_color(Now(r)).ret)

\* The colours a report has handed out are the first ones of a fresh
\* generator, in order.
C7_DrawnInOrder ==
    \A r \in RIds : \A i \in 1..Len(outs[r]) : outs[r][i] = FreshColor(i)

\* C7: a successful Report.label call appends exactly one Label as the last
\* element of the report's labels and returns a Label equal to it; its colour
\* is the caller's when one is given, and then the generator is not advanced,
\* and otherwise the next value of the report's generator; so the i-th value
\* the report has handed out (through label without a colour or through
\* color) is the i-th value of a fresh generator.
C7_LabelDrawsFreshSequence == [][C7_LabelStep /\ C7_DrawnInOrder']_vars

\* ------------------------------------------------------------------ C13
\* C13: a Report.label call that fails (start > end) leaves the report as it
\* was, with or without a colour passed: no label is appended and the
\* generator's cursor is not advanced, so the colour the report draws next is
\* the one it would have drawn without the call.
C13_FailedLabelLeavesReport ==
    [][(last'.op = "label" /\ ~last'.ret.ok) =>
          LET r == last'.args.r
          IN  /\ After(r).labels = Now(r).labels
              /\ After(r).colors = Now(r).colors
              /\ Report_color(After(r)).ret = Report_color(Now(r)).ret
              /\ reports' = reports]_vars

\* ------------------------------------------------------------------ C10
\* What a step of add_label, add_note or add_help changes.
C10_Step ==
    /\ last'.op = "add_label" =>
          LET r == last'.args.r
          IN  /\ After(r) = [Now(r) EXCEPT
                                !.labels = Append(@, last'.args.label)]
              /\ OthersKept(r) /\ UNCHANGED <<gens, outs>>
    /\ last'.op = "add_note" =>
          LET r == last'.args.r
          IN  /\ After(r) = [Now(r) EXCEPT !.notes = Append(@, last'.args.note)]
              /\ OthersKept(r) /\ UNCHANGED <<gens, outs>>
    /\ last'.op = "add_help" =>
          LET r == last'.args.r
          IN  /\ After(r) = [Now(r) EXCEPT !.helps = Append(@, last'.args.help)]
              /\ OthersKept(r) /\ UNCHANGED <<gens, outs>>

\* C10: add_label, add_note and add_help each add exactly one element at the
\* end of their own sequence and change nothing else of the report (the other
\* sequences, sources, kind, code, message, config, span, generator); the
\* label is stored as given.
C10_MutatorsAppendOnly == [][C10_Step]_vars

\* A label without colour and target was added after another label, with a
\* note and a help attached and a colour drawn before.
C10_Witness ==
    /\ last.op = "add_label"
    /\ last.args.label = Label_new(<<0, 1>>)
    /\ Len(Now("r1").labels) = 2
    /\ Now("r1").labels[2] = Label_new(<<0, 1>>)
    /\ Len(Now("r1").notes) = 1
    /\ Len(Now("r1").helps) = 1
    /\ Now("r1").colors # Inner_new

\* ========================================================= render handoff
\* One report, built with or without a code, a message, a kind and an
\* auxiliary file; the caller attaches labels, notes and helps, draws colours
\* and prints.
RichReport ==
    Unwrap(Report_py_new(PyPath("a.txt"), 0, 1, Some("E1"), Some("msg"),
                         Some("warning"), None, <<>>, <<>>, <<>>, Config_default,
                         PyList(<<PyPath("b.txt")>>)).val)

InitRender ==
    /\ \E rep \in {PlainReport(PyStr("ab"), 0, 1), RichReport} :
          reports = [r \in RIds |-> IF r = "r1" THEN Some(rep) ELSE None]
    /\ gens = [g \in GIds |-> ColorGenerator_new]
    /\ held = None
    /\ last = NoCall
    /\ outs = NoOuts

NextRender ==
    \/ \E l \in GivenLabels : AddLabel("r1", l)
    \/ \E n \in {"n1", "n2"} : AddNote("r1", n)
    \/ \E h \in {"h1", "h2"} : AddHelp("r1", h)
    \/ ReportColor("r1")
    \/ \E b \in BOOLEAN : ReportPrint("r1", b)

SpecRender == InitRender /\ [][NextRender]_vars

\* ------------------------------------------------------------------ C11
\* What a print step reads, and what the snapshot and the source list it
\* hands over are.
C11_PrintStep ==
    last'.op = "print" =>
        LET rep == Now(last'.args.r)
            snap == last'.ret.report
        IN  /\ UNCHANGED <<reports, gens, held, outs>>
            /\ snap.kind = ReportKind_to_ariadne(rep.kind)
            /\ snap.code = rep.code
            /\ snap.message = rep.message
            /\ snap.config = rep.config.inner
            /\ snap.span = <<rep.source.path, rep.span>>
            /\ snap.notes = rep.notes
            /\ snap.helps = rep.helps
            /\ Len(snap.labels) = Len(rep.labels)
            /\ \A i \in 1..Len(rep.labels) :
                  /\ snap.labels[i].span = rep.labels[i].span
                  /\ snap.labels[i].message = rep.labels[i].message
                  /\ snap.labels[i].order = rep.labels[i].order
                  /\ snap.labels[i].priority = rep.labels[i].priority
                  /\ snap.labels[i].color =
                        IF IsSome(rep.labels[i].color)
                        THEN Some(Unwrap(rep.labels[i].color).inner)
                        ELSE None
                  /\ snap.labels[i].target =
                        IF IsSome(rep.labels[i].target)
                        THEN Unwrap(rep.labels[i].target)
                        ELSE rep.source.path
            /\ last'.ret.files = Report_prepare_files(rep)

\* Two print steps of the same report in a row hand over the same snapshot
\* and the same source list.
C11_RepeatedPrint ==
    (last.op = "print" /\ last'.op = "print" /\ last'.args.r = last.args.r) =>
        /\ last'.ret.report = last.ret.report
        /\ last'.ret.files = last.ret.files

\* C11: print is a pure read of the report: it changes no field of any
\* report (labels, notes, helps, sources, generator cursor) and nothing else
\* the caller holds; the snapshot it hands over carries the report's kind,
\* code, message, config, primary path and span and all of its labels, notes
\* and helps in attachment order; two prints with no mutator call in between
\* hand over equal snapshots and source lists.
C11_HandoffIsPureRead == [][C11_PrintStep /\ C11_RepeatedPrint]_vars

\* The report with a code, a message and the warning kind was printed with
\* two different notes, two different helps and two different labels
\* attached and a colour drawn, and all of them are in the snapshot in the
\* order of attachment.
C11_Witness ==
    /\ last.op = "print"
    /\ Now("r1").code = Some("E1")
    /\ Now("r1").notes = <<"n2", "n1">>
    /\ Now("r1").helps = <<"h1", "h2">>
    /\ Len(Now("r1").labels) = 2
    /\ Now("r1").labels[1] # Now("r1").labels[2]
    /\ outs["r1"] # <<>>
    /\ last.ret.report.notes = <<"n2", "n1">>
    /\ last.ret.report.helps = <<"h1", "h2">>
    /\ last.ret.report.labels[1].span = Now("r1").labels[1].span
    /\ last.ret.report.labels[2].span = Now("r1").labels[2].span

\* ============================================== the construction of a report
\* The caller constructs one report from Python values and prints it.
SeqsUpTo(S, n) == UNION {[1..k -> S] : k \in 0..n}

SourcesIn ==
    {PyStr("abc"), PyPath("a.txt"), PyPath("gone.txt"),
     PyFile("xyz", Some("a.txt")), PyFile("xyz", None), PyInt}

KindNames ==
    {None, Some("error"), Some("warning"), Some("warn"), Some("advice"),
     Some(""), Some("note")}

FilesIn ==
    {PyList(items) : items \in SeqsUpTo({PyStr("aux"), PyPath("a.txt")}, MaxFiles)}
    \cup {PyNone, PyInt, PyList(<<PyPath("gone.txt")>>),
          PyDict(<<<<PyStr("a.txt"), PyStr("one")>>, <<PyPath("a.txt"), PyStr("two")>>>>),
          PyDict(<<<<PyInt, PyStr("one")>>>>)}

InitNew ==
    /\ reports = [r \in RIds |-> None]
    /\ gens = [g \in GIds |-> ColorGenerator_new]
    /\ held = None
    /\ last = NoCall
    /\ outs = NoOuts

\* Each run is one call of the constructor, then calls of print.
NextNew ==
    \/ /\ last = NoCall
       /\ \E src \in SourcesIn, s \in Offsets, e \in Offsets, k \in KindNames,
             c \in {None, Some(Red)}, f \in FilesIn :
             NewReport("r1", src, s, e, k, c, f)
    \/ \E b \in BOOLEAN : ReportPrint("r1", b)

SpecNew == InitNew /\ [][NextNew]_vars

\* ------------------------------------------------------------------ C1
\* The source, the severity inputs and the files of the last call are valid.
C1_OthersValid ==
    /\ Source_from_python(last.args.source).ok
    /\ ReportKind_from_params(last.args.kind, last.args.color).ok
    /\ parse_files(last.args.files).ok

\* C1: Report(source, start, end) fails whenever start > end (with InvalidSpan
\* when nothing else is wrong), succeeds whenever start <= end and the source,
\* severity and files are valid, and no report with start > end in its span
\* exists.
C1_ReportSpanChecked ==
    /\ last.op = "Report" =>
          /\ last.args.start > last.args.end =>
                /\ ~last.ret.ok
                /\ C1_OthersValid => last.ret.err = InvalidSpan
          /\ (last.args.start <= last.args.end /\ C1_OthersValid) => last.ret.ok
    /\ \A r \in RIds :
          IsSome(reports[r]) => Now(r).span[1] <= Now(r).span[2]

\* ------------------------------------------------------------------ C3
\* The table of section 4.3, rule by rule.
BuiltIns == {"error", "warning", "warn", "advice"}

KindTable(name, color) ==
    IF color = None
    THEN IF name = None \/ name = Some("error") THEN "Error"
         ELSE IF name = Some("warning") \/ name = Some("warn") THEN "Warning"
         ELSE IF name = Some("advice") THEN "Advice"
         ELSE "fails"
    ELSE IF name = None THEN "fails"
         ELSE IF Unwrap(name) = "" THEN "fails"
         ELSE IF Unwrap(name) \in BuiltIns THEN "fails"
         ELSE "Custom"

\* The message of each rejecting rule (2, 3, 4 and 6).
KindFailure(name, color) ==
    IF color = None THEN "Must specify a color for custom report kind"
    ELSE IF name = None THEN "Color specified without a name for custom report kind"
    ELSE IF Unwrap(name) = "" THEN "Custom report kind name cannot be empty"
    ELSE "Cannot set custom color for " \o Unwrap(name)

\* C3: the kind of a constructed report follows the six rules for every
\* (name, color); a pair the rules reject makes the construction fail; and the
\* kind is Custom exactly when a colour was given and resolution succeeded.
C3_KindTable ==
    (last.op = "Report" /\ Source_from_python(last.args.source).ok) =>
        LET want == KindTable(last.args.kind, last.args.color)
        IN  /\ want = "fails" =>
                  /\ ~last.ret.ok
                  /\ last.ret.err = KindFailure(last.args.kind, last.args.color)
            /\ (want # "fails" /\ parse_files(last.args.files).ok) =>
                  /\ last.ret.ok
                  /\ Unwrap(last.ret.val).kind.tag = want
                  /\ want = "Custom" =>
                        Unwrap(last.ret.val).kind =
                            KindCustom(Unwrap(last.args.kind), Unwrap(last.args.color))
                  /\ (Unwrap(last.ret.val).kind.tag = "Custom") <=> IsSome(last.args.color)

\* A report of a custom kind was built, and so was one from the "warn" alias.
C3_Witness ==
    /\ last.op = "Report" /\ last.ret.ok
    /\ last.args.kind = Some("note")
    /\ Unwrap(last.ret.val).kind = KindCustom("note", Red)

\* ------------------------------------------------------------------ C6
\* C6: the source list handed to the renderer for a report with primary P and
\* auxiliary sources A1..An is <<P, A1, ..., An>>: n + 1 entries, the primary
\* first, the auxiliaries in the order they were given to the constructor,
\* entries of equal path all kept.
C6_SourceList ==
    /\ (last.op = "Report" /\ last.ret.ok /\ last.args.files.type = "list") =>
          LET rep == Unwrap(last.ret.val)
              items == last.args.files.items
          IN  /\ rep.source = Unwrap(Source_from_python(last.args.source).val)
              /\ Len(rep.files) = Len(items)
              /\ \A i \in 1..Len(items) :
                    rep.files[i] = Unwrap(Source_from_python(items[i]).val)
    /\ last.op = "print" =>
          LET rep == Now(last.args.r)
              list == last.ret.files
          IN  /\ Len(list) = Len(rep.files) + 1
              /\ list[1] = <<rep.source.path, rep.source.source>>
              /\ \A i \in 1..Len(rep.files) :
                    list[i + 1] = <<rep.files[i].path, rep.files[i].source>>

\* A report whose two auxiliary sources have the primary's path was printed.
C6_Witness ==
    /\ last.op = "print"
    /\ last.ret.files = <<<<"a.txt", "xyz">>, <<"a.txt", "alpha">>, <<"a.txt", "alpha">>>>

\* ================================================== labels and their copies
\* The caller constructs a label and copies it.
InitLabel ==
    /\ reports = [r \in RIds |-> None]
    /\ gens = [g \in GIds |-> ColorGenerator_new]
    /\ held = None
    /\ last = NoCall
    /\ outs = NoOuts

\* Each run constructs labels until one construction succeeds, then copies
\* that label.
NextLabel ==
    \/ /\ held = None
       /\ \E s \in Offsets, e \in Offsets, p \in {None, Some("b.txt")},
             m \in {None, Some("m")}, c \in {None, Some(Red)},
             o \in {None, Some(1)}, pr \in {None, Some(2)} :
             NewLabel(s, e, p, m, c, o, pr)
    \/ \E m \in {None, Some("x")}, c \in {None, Some(Blue)},
          o \in {None, Some(-1)}, pr \in {None, Some(8)} :
          Copy(m, c, o, pr)

SpecLabel == InitLabel /\ [][NextLabel]_vars

\* ------------------------------------------------------------------ C4
\* C4: Label.copy returns a Label in which exactly the supplied fields among
\* message, color, order and priority are replaced; the omitted ones, the span
\* and the target are the original's; the original is unchanged; with nothing
\* supplied the copy equals the original.
C4_CopyOverrides ==
    last.op = "copy" =>
        LET orig == last.args.self
            new == last.ret
        IN  /\ new.span = orig.span
            /\ new.target = orig.target
            /\ new.message = IF IsSome(last.args.message)
                             THEN last.args.message ELSE orig.message
            /\ new.color = IF IsSome(last.args.color)
                           THEN last.args.color ELSE orig.color
            /\ new.order = IF IsSome(last.args.order)
                           THEN last.args.order ELSE orig.order
            /\ new.priority = IF IsSome(last.args.priority)
                              THEN last.args.priority ELSE orig.priority
            /\ held = Some(orig)
            /\ ( /\ last.args.message = None /\ last.args.color = None
                 /\ last.args.order = None /\ last.args.priority = None )
                  => new = orig

\* copy(message="x") of a label with a target, a colour, an order and a
\* priority.
C4_Witness ==
    /\ last.op = "copy"
    /\ last.args.self =
          [span |-> <<0, 1>>, target |-> Some("b.txt"), message |-> Some("m"),
           color |-> Some(Red), order |-> Some(1), priority |-> Some(2)]
    /\ last.args.message = Some("x") /\ last.args.color = None
    /\ last.args.order = None /\ last.args.priority = None
    /\ last.ret = [last.args.self EXCEPT !.message = Some("x")]

\* ================================================= every pair of offsets
\* The caller constructs labels, directly (until one construction succeeds)
\* and through the label method of a report over a text of length 0 or 2,
\* from every pair of offsets.
NextSpan ==
    \/ /\ held = None
       /\ \E s \in Offsets, e \in Offsets :
             NewLabel(s, e, None, None, None, None, None)
    \/ /\ Len(Now("r1").labels) < MaxSpanLabels
       /\ \E s \in Offsets, e \in Offsets, c \in {None, Some(Red)} :
             ReportLabel("r1", s, e, None, None, c, None, None)

SpecSpan == Init /\ [][NextSpan]_vars

\* ------------------------------------------------------------------ C2
\* C2: Label(start, end) and report.label(start, end) succeed if and only if
\* start <= end, fail with InvalidSpan otherwise, and on success the label
\* (for report.label: the label returned and the one appended) has the span
\* <<start, end>> as given, whatever the length of the report's text.
C2_LabelSpanChecked ==
    /\ last.op \in {"Label", "label"} =>
          /\ last.ret.ok <=> last.args.start <= last.args.end
          /\ ~last.ret.ok => last.ret.err = InvalidSpan
          /\ last.ret.ok =>
                Unwrap(last.ret.val).span = <<last.args.start, last.args.end>>
    /\ (last.op = "label" /\ last.ret.ok) =>
          LET labels == Now(last.args.r).labels
          IN  labels[Len(labels)].span = <<last.args.start, last.args.end>>

\* report.label(1, 2) succeeded on a report whose text is empty.
C2_Witness ==
    /\ last.op = "label" /\ last.ret.ok
    /\ last.args.start = 1 /\ last.args.end = 2
    /\ Len(Now("r1").source.source) = 0
    /\ Now("r1").labels[1].span = <<1, 2>>

\* =========================================== two reports, one shared label
\* Two reports with different primary paths; the caller attaches the label it
\* holds, or a label made by the report, and prints.
InitTwo ==
    /\ reports = [r \in RIds |-> IF r = "r1"
                                 THEN Some(PlainReport(PyStr("ab"), 0, 1))
                                 ELSE Some(PlainReport(PyPath("a.txt"), 0, 1))]
    /\ gens = [g \in GIds |-> ColorGenerator_new]
    /\ held = None
    /\ last = NoCall
    /\ outs = NoOuts

NextTwo ==
    \/ /\ held = None
       /\ \E p \in {None, Some("b.txt")} : NewLabel(0, 1, p, None, None, None, None)
    \/ /\ IsSome(held)
       /\ \E r \in RIds : AddLabel(r, Unwrap(held))
    \/ \E r \in RIds, p \in {None, Some("b.txt")} :
          ReportLabel(r, 1, 2, p, None, Some(Red), None, None)
    \/ \E r \in RIds, b \in BOOLEAN : ReportPrint(r, b)

SpecTwo == InitTwo /\ [][NextTwo]_vars

\* ------------------------------------------------------------------ C5
\* What print shows of the labels of the report, and what it leaves alone.
C5_PrintStep ==
    last'.op = "print" =>
        LET rep == Now(last'.args.r)
            shown == last'.ret.report.labels
        IN  /\ Len(shown) = Len(rep.labels)
            /\ \A i \in 1..Len(rep.labels) :
                  /\ rep.labels[i].target = None =>
                        shown[i].target = rep.source.path
                  /\ IsSome(rep.labels[i].target) =>
                        shown[i].target = Unwrap(rep.labels[i].target)
                  /\ shown[i].span = rep.labels[i].span
            /\ reports' = reports
            /\ held' = held

\* C5: in what print hands to the renderer, every label of the report whose
\* target is unset has the report's primary path as its target and every
\* other label its own target; print changes no stored label (an unset target
\* stays unset), so a label attached to two reports resolves to the primary
\* path of the report that is printed.
C5_TargetResolvedPerReport == [][C5_PrintStep]_vars

\* The held label, without a target, is the first label of both reports, and
\* the second report, whose primary path is a.txt, was printed with that
\* label shown at a.txt.
C5_Witness ==
    /\ last.op = "print" /\ last.args.r = "r2"
    /\ IsSome(held) /\ Unwrap(held).target = None
    /\ Now("r1").labels # <<>> /\ Now("r1").labels[1] = Unwrap(held)
    /\ Now("r2").labels # <<>> /\ Now("r2").labels[1] = Unwrap(held)
    /\ Now("r1").source.path = "<string>"
    /\ last.ret.report.labels[1].target = "a.txt"
    /\ Len(Now("r2").labels) = 2 /\ Now("r2").labels[2].target = Some("b.txt")
    /\ last.ret.report.labels[2].target = "b.txt"

\* =============================================================== generators
\* Two standalone generators and the private generators of two reports, each
\* asked for colours in any order.
Owners == RIds \cup GIds

NextGen ==
    \/ \E g \in GIds : GenNext(g)
    \/ \E r \in RIds : ReportColor(r)

SpecGen == InitTwo /\ [][NextGen]_vars

\* The cursor of an owner's generator.
CursorOf(o) == IF o \in GIds THEN gens[o].inner ELSE Now(o).colors
CursorAfter(o) == IF o \in GIds THEN gens'[o].inner ELSE After(o).colors

\* ------------------------------------------------------------------ C8
\* Any two owners have been returned the same colours, as far as both went.
C8_SameSequences ==
    \A a \in Owners, b \in Owners :
        \A k \in 1..Len(outs[a]) :
            k <= Len(outs[b]) => outs[a][k] = outs[b][k]

\* A call advances the cursor of its own generator and of no other.
C8_Step ==
    last'.op \in {"next", "color"} =>
        LET o == IF last'.op = "next" THEN last'.args.g ELSE last'.args.r
        IN  /\ \A x \in Owners \ {o} :
                  CursorAfter(x) = CursorOf(x) /\ outs'[x] = outs[x]
            /\ CursorAfter(o) # CursorOf(o)
            /\ outs'[o] = Append(outs[o], last'.ret)

\* C8: the k-th colour returned by one generator equals the k-th colour
\* returned by any other (standalone, or inside a report), whatever the order
\* of the calls; and a call on one generator leaves the cursor of every
\* other generator, and so its next colour, unchanged.
C8_GeneratorsIndependent == [][C8_Step /\ C8_SameSequences']_vars

\* One standalone generator and one report have each returned two colours,
\* another standalone generator one and the other report none.
C8_Witness ==
    /\ Len(outs["g1"]) = 2 /\ Len(outs["r1"]) = 2
    /\ Len(outs["g2"]) = 1 /\ Len(outs["r2"]) = 0
    /\ outs["g1"] = outs["r1"]
    /\ Now("r2").colors = Inner_new

\* ------------------------------------------------------------------ C9
\* C9: in the colours returned by the successive calls of next() on one
\* generator no two consecutive ones are equal (for the calls made, and for
\* two calls made from the cursor any of the first SampleDraws calls leaves),
\* and every call returns a colour (none fails, none ends the sequence).
C9_ConsecutiveDiffer ==
    /\ \A g \in GIds : \A i \in 1..(Len(outs[g]) - 1) : outs[g][i] # outs[g][i + 1]
    /\ \A n \in 0..SampleDraws :
          LET cursor == [hue |-> (HueSeed + n * HueStep) % HueModulus]
              first == Inner_next(cursor)
          IN  first.color # Inner_next(first.gen).color
    /\ last.op = "next" =>
          /\ last.ret.inner.tag = "Rgb"
          /\ outs[last.args.g] # <<>>
          /\ outs[last.args.g][Len(outs[last.args.g])] = last.ret

\* A standalone generator has returned MaxDraws colours.
C9_Witness ==
    /\ last.op = "next"
    /\ Len(outs["g1"]) = MaxDraws

\* ============================================================ Config(...)
\* One call of the Config constructor, over every value of the flags, two tab
\* widths and the names below for label_attach (or none given).
AttachNames == {"start", "middle", "end", "right", "top"}
TabWidths == {0, 4}

InitConfig ==
    /\ reports = [r \in RIds |-> None]
    /\ gens = [g \in GIds |-> ColorGenerator_new]
    /\ held = None
    /\ last = NoCall
    /\ outs = NoOuts

NextConfig ==
    /\ last = NoCall
    /\ \E cross_gap, compact, underlines, multiline_arrows \in BOOLEAN :
       \E color, ascii, byte_indexed \in BOOLEAN :
       \E tab_width \in TabWidths :
       \E label_attach \in {None} \cup {Some(n) : n \in AttachNames} :
          NewConfig(cross_gap, compact, underlines, multiline_arrows, color,
                    tab_width, ascii, byte_indexed, label_attach)

SpecConfig == InitConfig /\ [][NextConfig]_vars

\* ------------------------------------------------------------------ C12
\* The last call built a Config whose label_attach is v.
C12_Gives(v) ==
    /\ last.ret.ok
    /\ Unwrap(last.ret.val).inner.label_attach = v

\* C12: Config(...) gives the attachment value named by label_attach:
\* 'start' gives Start, 'middle' gives Middle, 'end' gives End, every other
\* name is rejected with an error, and without label_attach the value is
\* Middle.
C12_LabelAttachByName ==
    last.op = "Config" =>
        LET given == last.args.label_attach
        IN  /\ given = Some("start") => C12_Gives("Start")
            /\ given = Some("middle") => C12_Gives("Middle")
            /\ given = Some("end") => C12_Gives("End")
            /\ given = None => C12_Gives("Middle")
            /\ (IsSome(given) /\ Unwrap(given) \notin {"start", "middle", "end"}) =>
                  ~last.ret.ok

====
